---- MODULE Spec2Model ----
(***************************************************************************)
(* Model of market-control-system.ts: a product catalog (ProductManager),  *)
(* a shopping cart (Cart) and the orders made from it (OrderManager).      *)
(*                                                                         *)
(* CartItem objects are mutable and shared by reference in the source      *)
(* (Cart.getItems copies the array, not the CartItems), so they live in a  *)
(* heap `cells`; the cart and the orders hold references (indices) into    *)
(* it.  A CartItem that neither the cart nor an order references any more  *)
(* is reclaimed, as the garbage collector does, and the references are     *)
(* renumbered in allocation order.  Product objects are immutable          *)
(* (readonly fields) and are modelled by value; so are the arrays, which   *)
(* are never shared: Cart.items and OrderManager.orders are private and    *)
(* getItems hands out a copy.  That copy is the one array a caller can     *)
(* hold and change; `returned` is the array a caller holds, with a mark    *)
(* telling whether it is the cart's own array.                             *)
(***************************************************************************)
EXTENDS Integers, Sequences, FiniteSets

\* ---- bounds of the model ----
MaxQty == 3         \* a line's quantity is not raised above MaxQty
MaxCells == 2       \* at most MaxCells CartItem objects are alive at a time

\* ---- the inputs the operations are called with ----
ProductIds == {1, 2}
Names == {"a", "b"}
Prices == {1, 2}
Quantities == {-1, 0, 1, 2}
OrderIds == 1..(MaxCells + 1)

\* enum OrderStatus
OrderStatus == {"PREPARING", "SHIPPED", "DELIVERED", "CANCELLED"}

\* class Product: the products the caller constructs, two for each id, which
\* differ in name and price; the constructor throws unless price > 0
Product ==
    {p \in [id : ProductIds, name : Names, price : Prices] :
        /\ p.price > 0
        /\ (p.name = "a") = (p.price = 1)}

\* the value findProduct / Array.find returns when nothing matches
undefined == [id |-> 0, name |-> "", price |-> 0]

VARIABLES
    products,   \* ProductManager.products : sequence of Product
    cells,      \* heap of CartItem objects: ref -> [product, quantity]
    items,      \* Cart.items : sequence of refs into cells
    orders,     \* OrderManager.orders : sequence of [id, items (refs), status]
    returned,   \* the array a caller got from getItems and holds: none or one
    pc          \* the statement of the script at the end of the file that is
                \* next; 0 when the callers are arbitrary

vars == <<products, cells, items, orders>>
caller == <<returned, pc>>

\* ---- helpers ----

\* Array.prototype.find, given the set of the indices whose element matches:
\* the first of them, 0 when there is none
FirstIndex(matching) ==
    IF matching = {} THEN 0
    ELSE CHOOSE i \in matching : \A j \in matching : i <= j

\* ---- the heap of CartItem objects ----

\* the references held by the cart its and by the orders ords
Live(its, ords) ==
    {its[i] : i \in 1..Len(its)} \cup
    UNION {{ords[k].items[j] : j \in 1..Len(ords[k].items)} : k \in 1..Len(ords)}

\* the number a live reference r has once the dead cells are reclaimed
Rank(r, live) == Cardinality({x \in live : x <= r})

Renumber(refs, live) == [i \in 1..Len(refs) |-> Rank(refs[i], live)]

\* the heap, the cart and the orders after the unreferenced cells of cs are
\* reclaimed
Reclaim(cs, its, ords) ==
    LET live == Live(its, ords)
    IN  /\ cells' = [n \in 1..Cardinality(live) |->
                        cs[CHOOSE r \in live : Rank(r, live) = n]]
        /\ items' = Renumber(its, live)
        /\ orders' = [k \in 1..Len(ords) |->
                        [ords[k] EXCEPT !.items = Renumber(@, live)]]

\* ---- ProductManager (by value: Product is immutable) ----

\* faulty variant: a product the catalog lacks is taken from the cart's line for it
findProduct_OrCart(id) ==
    LET i == FirstIndex({n \in 1..Len(products) : products[n].id = id})
        j == FirstIndex({n \in 1..Len(items) : cells[items[n]].product.id = id})
    IN  IF i # 0 THEN products[i]
        ELSE IF j # 0 THEN cells[items[j]].product
        ELSE undefined

\* ProductManager.findProduct: the first product with that id, or undefined
findProduct(id) ==
    LET i == FirstIndex({n \in 1..Len(products) : products[n].id = id})
    IN  IF i = 0 THEN undefined ELSE products[i]

\* faulty variant: an id is never found to be present
hasProduct_Never(prods, id) == FALSE

\* the test of addProduct: products.find(p => p.id === product.id) is truthy
hasProduct(prods, id) ==
    FirstIndex({n \in 1..Len(prods) : prods[n].id = id}) # 0

\* ProductManager.addProduct
AddProduct(product) ==
    IF hasProduct(products, product.id)
    THEN UNCHANGED vars
    ELSE /\ products' = Append(products, product)
         /\ UNCHANGED <<cells, items, orders>>

\* faulty variant: the product's line is taken out of the cart as well
RemoveProduct_Cascade(id) ==
    /\ products' = SelectSeq(products, LAMBDA p : p.id # id)
    /\ items' = SelectSeq(items, LAMBDA r : cells[r].product.id # id)
    /\ UNCHANGED <<cells, orders>>

\* ProductManager.removeProduct
RemoveProduct(id) ==
    /\ products' = SelectSeq(products, LAMBDA p : p.id # id)
    /\ UNCHANGED <<cells, items, orders>>

\* ---- CartItem ----

\* the guard of the CartItem constructor: it throws when quantity <= 0
CartItemThrows(quantity) == quantity <= 0

\* new CartItem(product, quantity)
CartItem(product, quantity) == [product |-> product, quantity |-> quantity]

\* ---- Cart ----

\* faulty variant: only a quantity of 0 is rejected
quantityRejected_Zero(quantity) == quantity = 0

\* faulty variant: no quantity is rejected
quantityRejected_Never(quantity) == FALSE

\* the first test of addItem: quantity <= 0 is rejected
quantityRejected(quantity) == quantity <= 0

\* faulty variant: the line of the cart is never found
existingItem_None(its, productId) == 0

\* faulty variant: a line matches only if it holds the product the catalog
\* has now
existingItem_SameProduct(its, productId) ==
    LET i == FirstIndex({n \in 1..Len(its) :
                 cells[its[n]].product = findProduct(productId)})
    IN  IF i = 0 THEN 0 ELSE its[i]

\* items.find(item => item.product.id === productId): the ref of the first
\* line of the cart for that product id, 0 when there is none
existingItem(its, productId) ==
    LET i == FirstIndex({n \in 1..Len(its) : cells[its[n]].product.id = productId})
    IN  IF i = 0 THEN 0 ELSE its[i]

\* faulty variant: the quantity is overwritten, not added to
incrementQuantity_Overwrite(old, quantity) == quantity

\* existingItem.quantity += quantity
incrementQuantity(old, quantity) == old + quantity

\* Cart.addItem
AddItem(productId, quantity) ==
    IF quantityRejected(quantity)
    THEN UNCHANGED vars
    ELSE LET product == findProduct(productId)
             existing == existingItem(items, productId)
         IN  IF product = undefined
             THEN UNCHANGED vars
             ELSE IF existing # 0
             THEN /\ incrementQuantity(cells[existing].quantity, quantity) <= MaxQty
                  /\ cells' = [cells EXCEPT ![existing].quantity =
                                   incrementQuantity(@, quantity)]
                  /\ UNCHANGED <<products, items, orders>>
             ELSE IF CartItemThrows(quantity)
             THEN UNCHANGED vars
             ELSE /\ Len(cells) < MaxCells
                  /\ cells' = Append(cells, CartItem(product, quantity))
                  /\ items' = Append(items, Len(cells) + 1)
                  /\ UNCHANGED <<products, orders>>

\* faulty variant: only a line whose product the catalog still has is removed
keepsItem_Unlisted(r, productId) ==
    \/ cells[r].product.id # productId
    \/ findProduct(productId) = undefined

\* the filter of removeItem: item.product.id !== productId
keepsItem(r, productId) == cells[r].product.id # productId

\* Cart.removeItem
RemoveItem(productId) ==
    LET filtered == SelectSeq(items, LAMBDA r : keepsItem(r, productId))
    IN  /\ Reclaim(cells, filtered, orders)
        /\ UNCHANGED products

\* faulty variant: the cart's own array is handed out
getItems_Same(its) == [alias |-> TRUE, elems |-> its]

\* Cart.getItems: [...this.items], a new array (alias: it is this.items
\* itself) holding the same CartItem references
getItems(its) == [alias |-> FALSE, elems |-> [i \in 1..Len(its) |-> its[i]]]

\* faulty variant: the cart never counts as empty
isEmpty_Never(its) == FALSE

\* Cart.isEmpty
isEmpty(its) == Len(its) = 0

\* faulty variant: the cart keeps its line items
clearCart_Keeps(its) == its

\* Cart.clearCart: the value of this.items after the call
clearCart(its) == << >>

\* Cart.clearCart called by the user
ClearCart ==
    /\ Reclaim(cells, clearCart(items), orders)
    /\ UNCHANGED products

\* ---- Order / OrderManager ----

\* new Order(id, items, status)
Order(id, its, status) == [id |-> id, items |-> its, status |-> status]

\* faulty variant: the id is the order count, not the count + 1
newOrderId_Count(ords) == Len(ords)

\* faulty variant: every order gets id 1
newOrderId_One(ords) == 1

\* the id addOrder gives to the new order
newOrderId(ords) == Len(ords) + 1

\* Order.totalPrice: items.reduce((total, item) => total + price * quantity, 0)
RECURSIVE reduceTotal(_, _)
reduceTotal(its, total) ==
    IF its = << >> THEN total
    ELSE reduceTotal(Tail(its),
             total + cells[Head(its)].product.price * cells[Head(its)].quantity)

\* faulty variant: the price is read from the catalog when it has the product
totalPrice_Live(order) ==
    LET livePrice(r) ==
            IF findProduct(cells[r].product.id) = undefined
            THEN cells[r].product.price
            ELSE findProduct(cells[r].product.id).price
        sum[i \in 0..Len(order.items)] ==
            IF i = 0 THEN 0
            ELSE sum[i - 1] + livePrice(order.items[i]) * cells[order.items[i]].quantity
    IN  sum[Len(order.items)]

\* faulty variant: the quantities are left out of the sum
totalPrice_NoQuantity(order) ==
    LET sum[i \in 0..Len(order.items)] ==
            IF i = 0 THEN 0
            ELSE sum[i - 1] + cells[order.items[i]].product.price
    IN  sum[Len(order.items)]

totalPrice(order) == reduceTotal(order.items, 0)

\* OrderManager.addOrder
AddOrder ==
    IF isEmpty(items)
    THEN UNCHANGED vars
    ELSE LET newOrder == Order(newOrderId(orders), getItems(items).elems, "PREPARING")
         IN  /\ Reclaim(cells, clearCart(items), Append(orders, newOrder))
             /\ UNCHANGED products

\* faulty variant: an id that matches no order falls back to the last order
findOrder_OrLast(ords, orderId) ==
    LET i == FirstIndex({n \in 1..Len(ords) : ords[n].id = orderId})
    IN  IF i = 0 THEN Len(ords) ELSE i

\* faulty variant: a match is taken to be the last order of the list
findOrder_Last(ords, orderId) ==
    LET i == FirstIndex({n \in 1..Len(ords) : ords[n].id = orderId})
    IN  IF i = 0 THEN 0 ELSE Len(ords)

\* orders.find(order => order.id === orderId): the position of the first order
\* with that id, 0 when there is none
findOrder(ords, orderId) ==
    FirstIndex({n \in 1..Len(ords) : ords[n].id = orderId})

\* faulty variant: DELIVERED and CANCELLED are final
assignStatus_Final(order, newStatus) ==
    IF order.status \in {"DELIVERED", "CANCELLED"}
    THEN order
    ELSE [order EXCEPT !.status = newStatus]

\* order.status = newStatus
assignStatus(order, newStatus) == [order EXCEPT !.status = newStatus]

\* OrderManager.updateOrderStatus
UpdateOrderStatus(orderId, newStatus) ==
    LET i == findOrder(orders, orderId)
    IN  IF i = 0
        THEN UNCHANGED vars
        ELSE /\ orders' = [orders EXCEPT ![i] = assignStatus(@, newStatus)]
             /\ UNCHANGED <<products, cells, items>>

\* ---- specification ----

\* new ProductManager(), new Cart(productManager), new OrderManager()
Init ==
    /\ products = << >>
    /\ cells = << >>
    /\ items = << >>
    /\ orders = << >>
    /\ returned = << >>
    /\ pc = 0

Next ==
    \/ \E product \in Product : AddProduct(product) /\ UNCHANGED caller
    \/ \E id \in ProductIds : RemoveProduct(id) /\ UNCHANGED caller
    \/ \E id \in ProductIds, q \in Quantities : AddItem(id, q) /\ UNCHANGED caller
    \/ \E id \in ProductIds : RemoveItem(id) /\ UNCHANGED caller
    \/ ClearCart /\ UNCHANGED caller
    \/ AddOrder /\ UNCHANGED caller
    \/ \E id \in OrderIds, s \in OrderStatus :
          UpdateOrderStatus(id, s) /\ UNCHANGED caller

Spec == Init /\ [][Next]_<<vars, caller>>

\* ---- a caller that keeps and changes the array getItems returned ----

\* the caller calls cart.getItems() and keeps the array
GetItems ==
    /\ returned = << >>
    /\ returned' = <<getItems(items)>>
    /\ UNCHANGED <<vars, pc>>

\* the array the caller holds becomes elems; when it is the cart's own
\* array, the cart's items are that array
SetReturned(elems) ==
    /\ returned' = <<[returned[1] EXCEPT !.elems = elems]>>
    /\ items' = IF returned[1].alias THEN elems ELSE items

\* returned.push(new CartItem(product, quantity))
ReturnedPush(product, quantity) ==
    /\ returned # << >>
    /\ ~CartItemThrows(quantity)
    /\ Len(cells) < MaxCells
    /\ cells' = Append(cells, CartItem(product, quantity))
    /\ SetReturned(Append(returned[1].elems, Len(cells) + 1))
    /\ UNCHANGED <<products, orders, pc>>

\* returned.pop()
ReturnedPop ==
    /\ returned # << >>
    /\ returned[1].elems # << >>
    /\ SetReturned(SubSeq(returned[1].elems, 1, Len(returned[1].elems) - 1))
    /\ UNCHANGED <<products, cells, orders, pc>>

\* returned.reverse()
ReturnedReverse ==
    /\ returned # << >>
    /\ LET elems == returned[1].elems
       IN  SetReturned([i \in 1..Len(elems) |-> elems[Len(elems) + 1 - i]])
    /\ UNCHANGED <<products, cells, orders, pc>>

\* the caller lets go of the array; the CartItems only it held are reclaimed
ReturnedDrop ==
    /\ returned # << >>
    /\ returned' = << >>
    /\ Reclaim(cells, items, orders)
    /\ UNCHANGED <<products, pc>>

\* the calls of Next are made while the caller holds no array
ViewNext ==
    \/ returned = << >> /\ Next
    \/ GetItems
    \/ \E product \in Product, q \in Quantities : ReturnedPush(product, q)
    \/ ReturnedPop
    \/ ReturnedReverse
    \/ ReturnedDrop

ViewSpec == Init /\ [][ViewNext]_<<vars, caller>>

\* ---- the script at the end of the file ----

\* the prices of the three products the script constructs
LaptopPrice == 75000
PhonePrice == 45000
HeadphonesPrice == 5000

Laptop == [id |-> 1, name |-> "Laptop", price |-> LaptopPrice]
Phone == [id |-> 2, name |-> "Phone", price |-> PhonePrice]
Headphones == [id |-> 3, name |-> "Headphones", price |-> HeadphonesPrice]

\* the position after the script's statements that are modelled
ScriptEnd == 10

\* the statements of the script in their order, from the three addProduct
\* calls to the first updateOrderStatus
ScriptStep ==
    /\ \/ pc = 1 /\ AddProduct(Laptop)
       \/ pc = 2 /\ AddProduct(Phone)
       \/ pc = 3 /\ AddProduct(Headphones)
       \/ pc = 4 /\ AddItem(1, 1)
       \/ pc = 5 /\ AddItem(2, 2)
       \/ pc = 6 /\ AddItem(3, -1)
       \/ pc = 7 /\ AddItem(4, 1)
       \/ pc = 8 /\ AddOrder
       \/ pc = 9 /\ UpdateOrderStatus(1, "SHIPPED")
    /\ pc' = pc + 1
    /\ UNCHANGED returned

\* the objects stay in use after these statements: any call may follow
ScriptRest ==
    /\ pc = ScriptEnd
    /\ \/ \E product \in Product \cup {Laptop, Phone, Headphones} : AddProduct(product)
       \/ \E id \in ProductIds \cup {3} : RemoveProduct(id)
       \/ \E id \in ProductIds \cup {3}, q \in Quantities : AddItem(id, q)
       \/ \E id \in ProductIds \cup {3} : RemoveItem(id)
       \/ ClearCart
       \/ AddOrder
       \/ \E id \in OrderIds, s \in OrderStatus : UpdateOrderStatus(id, s)
    /\ UNCHANGED caller

ScriptInit ==
    /\ products = << >>
    /\ cells = << >>
    /\ items = << >>
    /\ orders = << >>
    /\ returned = << >>
    /\ pc = 1

ScriptNext == ScriptStep \/ ScriptRest

ScriptSpec == ScriptInit /\ [][ScriptNext]_<<vars, caller>>

TypeOK ==
    /\ products \in Seq(Product)
    /\ Len(cells) <= MaxCells
    /\ \A r \in 1..Len(cells) :
          cells[r].product \in Product /\ cells[r].quantity \in Int
    /\ \A i \in 1..Len(items) : items[i] \in 1..Len(cells)
    /\ \A k \in 1..Len(orders) : orders[k].status \in OrderStatus
    /\ Live(items, orders) = 1..Len(cells)

\* ---- vocabulary of the properties ----

\* the line items (product and quantity) the references refs denote in heap cs
LinesOf(cs, refs) == [i \in 1..Len(refs) |-> cs[refs[i]]]

\* the product ids of a sequence of line items
IdsOf(lines) == {lines[i].product.id : i \in 1..Len(lines)}

CartLines == LinesOf(cells, items)
OrderLines(k) == LinesOf(cells, orders[k].items)

InCatalog(id) == \E i \in 1..Len(products) : products[i].id = id
InCart(id) == id \in IdsOf(CartLines)

\* ---- C1 ----

\* C1: addOrder on a non-empty cart with n orders appends exactly one order:
\* its line items are the cart's line items before the call, in the same
\* sequence, its status is PREPARING, its id is n + 1, the earlier orders are
\* kept, and the cart is empty afterwards.
C1_AddOrderSnapshots ==
    [][(Len(items) > 0 /\ AddOrder) =>
         /\ Len(orders') = Len(orders) + 1
         /\ \A k \in 1..Len(orders) :
               /\ orders'[k].id = orders[k].id
               /\ orders'[k].status = orders[k].status
               /\ OrderLines(k)' = OrderLines(k)
         /\ LinesOf(cells', orders'[Len(orders')].items) = CartLines
         /\ orders'[Len(orders')].status = "PREPARING"
         /\ orders'[Len(orders')].id = Len(orders) + 1
         /\ Len(items') = 0]_vars

\* an order was made of the cart when one order existed already
C1_Witness ==
    /\ Len(orders) = 2
    /\ orders[2].id = 2
    /\ orders[2].status = "PREPARING"
    /\ Len(orders[2].items) >= 1
    /\ Len(items) = 0

\* an order was made of a cart of two lines
C1_TwoLineOrder ==
    /\ Len(orders) = 1
    /\ Len(orders[1].items) = 2
    /\ Len(items) = 0

\* ---- C2 ----

\* C2: no step changes the line items of an order that exists: the products,
\* their sequence and every quantity stay as snapshotted.
C2_OrderItemsImmutable ==
    [][\A k \in 1..Len(orders) :
          /\ k <= Len(orders')
          /\ OrderLines(k)' = OrderLines(k)]_vars

\* the cart was refilled with a product of an order, in another quantity
C2_Witness ==
    \E k \in 1..Len(orders) : \E i \in 1..Len(OrderLines(k)) :
        \E j \in 1..Len(CartLines) :
            /\ CartLines[j].product.id = OrderLines(k)[i].product.id
            /\ CartLines[j].quantity # OrderLines(k)[i].quantity

\* ---- C3 ----

\* the sum of price * quantity over the line items of order k
SumOfLines(k) ==
    LET lines == OrderLines(k)
        sum[i \in 0..Len(lines)] ==
            IF i = 0 THEN 0
            ELSE sum[i - 1] + lines[i].product.price * lines[i].quantity
    IN  sum[Len(lines)]

\* C3: the totalPrice of every order is the sum of price * quantity over its
\* line items, and no step (a change of the catalog included) changes it.
C3_TotalPriceStable ==
    /\ [](\A k \in 1..Len(orders) : totalPrice(orders[k]) = SumOfLines(k))
    /\ [][\A k \in 1..Len(orders) :
             totalPrice(orders[k])' = totalPrice(orders[k])]_vars

\* the catalog now has another price for the product id of an order line
C3_Witness ==
    \E k \in 1..Len(orders) : \E i \in 1..Len(OrderLines(k)) :
        \E j \in 1..Len(products) :
            /\ products[j].id = OrderLines(k)[i].product.id
            /\ products[j].price # OrderLines(k)[i].product.price

\* ---- C4 ----

\* C4: addOrder on an empty cart changes nothing, and every addOrder leaves
\* the cart empty, so a second addOrder right after it is such a call.
C4_EmptyCartNoOrder ==
    [][AddOrder => /\ Len(items) = 0 => UNCHANGED vars
                   /\ Len(items') = 0]_vars

\* the state right after an order was made: the cart is empty
C4_Witness ==
    /\ Len(orders) >= 1
    /\ Len(items) = 0

\* ---- C5 ----

\* C5: the cart has at most one line item per product id.
C5_OneLinePerProduct ==
    \A i, j \in 1..Len(items) :
        CartLines[i].product.id = CartLines[j].product.id => i = j

\* the cart has two lines and a product was added to one of them again
C5_Witness ==
    /\ Len(items) = 2
    /\ \E i \in 1..2 : CartLines[i].quantity = 3

\* ---- C6 ----

\* C6: every line item of the cart and of every order has quantity > 0.
C6_QuantityPositive ==
    \A r \in Live(items, orders) : cells[r].quantity > 0

\* the cart and an order both hold a line item
C6_Witness ==
    /\ Len(items) >= 1
    /\ Len(orders) >= 1
    /\ \E r \in 1..Len(cells) : cells[r].quantity >= 2

\* ---- C7 ----

\* C7: addItem(id, q) with q <= 0 changes neither the cart's line items nor
\* the catalog nor the orders, for every product id.
C7_NonPositiveQuantityRejected ==
    [][\A id \in ProductIds : \A q \in Quantities :
          (q <= 0 /\ AddItem(id, q)) =>
              /\ CartLines' = CartLines
              /\ products' = products
              /\ orders' = orders
              /\ \A k \in 1..Len(orders) : OrderLines(k)' = OrderLines(k)]_vars

\* the cart holds a line for a product of the catalog and the catalog lacks
\* another product id: addItem with q <= 0 meets both kinds of id here
C7_Witness ==
    /\ \E id \in ProductIds : InCart(id) /\ InCatalog(id)
    /\ \E id \in ProductIds : ~InCart(id) /\ ~InCatalog(id)

\* ---- C8 ----

\* C8: addItem(id, q) with q > 0 for an id the catalog does not resolve
\* changes nothing, also when the cart holds a line item for that id.
C8_UnknownProductRejected ==
    [][\A id \in ProductIds : \A q \in Quantities :
          (q > 0 /\ ~InCatalog(id) /\ AddItem(id, q)) =>
              /\ CartLines' = CartLines
              /\ products' = products
              /\ orders' = orders]_vars

\* the cart holds a line item whose product was removed from the catalog
C8_Witness ==
    \E id \in ProductIds : InCart(id) /\ ~InCatalog(id)

\* ---- C9 ----

\* the position in the cart of the line item for product id
LineIndex(id) == CHOOSE i \in 1..Len(items) : CartLines[i].product.id = id

\* C9: addItem(id, q), q > 0, for an id the catalog resolves: when the cart
\* has no line for id it gets one, at the end, with quantity q; when it has
\* one, that line's quantity grows by exactly q; the other lines and their
\* sequence are unchanged in both cases.  Two calls with q1 and q2 on a cart
\* without the id so leave one line with quantity q1 + q2.
C9_AddItemAccumulates ==
    [][\A id \in ProductIds : \A q \in Quantities :
          (q > 0 /\ InCatalog(id) /\ AddItem(id, q)) =>
              IF InCart(id)
              THEN /\ Len(CartLines') = Len(CartLines)
                   /\ \A i \in 1..Len(CartLines) :
                         /\ CartLines'[i].product = CartLines[i].product
                         /\ CartLines'[i].quantity =
                               IF i = LineIndex(id)
                               THEN CartLines[i].quantity + q
                               ELSE CartLines[i].quantity
              ELSE /\ Len(CartLines') = Len(CartLines) + 1
                   /\ \A i \in 1..Len(CartLines) : CartLines'[i] = CartLines[i]
                   /\ CartLines'[Len(CartLines')].product.id = id
                   /\ CartLines'[Len(CartLines')].quantity = q]_vars

\* the first of two lines holds 1 + 2 units: it was added to after the
\* second line was made
C9_Witness ==
    /\ Len(items) = 2
    /\ CartLines[1].quantity = 3
    /\ CartLines[2].quantity = 1

\* ---- C10 ----

\* C10: the catalog holds at most one product per id, and addProduct of a
\* product whose id is present changes nothing: findProduct(id) returns the
\* product stored first, with its name and price.
C10_OneProductPerId ==
    /\ [](\A i, j \in 1..Len(products) : products[i].id = products[j].id => i = j)
    /\ [][\A product \in Product :
             (InCatalog(product.id) /\ AddProduct(product)) =>
                 /\ products' = products
                 /\ findProduct(product.id)' = findProduct(product.id)]_vars

\* the catalog holds a product for every id: each addProduct is a duplicate
C10_Witness ==
    /\ \A id \in ProductIds : InCatalog(id)
    /\ \E i \in 1..Len(products) : products[i].price = 2

\* ---- C11 ----

OrderExists(id) == \E k \in 1..Len(orders) : orders[k].id = id
OrderIndex(id) == CHOOSE k \in 1..Len(orders) : orders[k].id = id

\* C11: updateOrderStatus(id, s) with an id that matches no order changes no
\* order's status, id or line items, nor the number of orders.
C11_UnknownOrderIgnored ==
    [][\A id \in OrderIds : \A s \in OrderStatus :
          (~OrderExists(id) /\ UpdateOrderStatus(id, s)) =>
              /\ orders' = orders
              /\ \A k \in 1..Len(orders) : OrderLines(k)' = OrderLines(k)]_vars

\* an order whose status was changed, and an id that matches no order
C11_Witness ==
    /\ Len(orders) = 1
    /\ orders[1].status = "SHIPPED"
    /\ \E id \in OrderIds : ~OrderExists(id)

\* ---- C12 ----

\* C12: an order starts in PREPARING; updateOrderStatus(id, target) on an
\* existing order sets its status to target, whatever the status was; and in
\* every state every order can be given every status, so none is final.
C12_AnyStatusToAny ==
    /\ [](\A k \in 1..Len(orders) : \A s \in OrderStatus :
             ENABLED (UpdateOrderStatus(orders[k].id, s) /\ orders'[k].status = s))
    /\ [][/\ \A k \in (Len(orders) + 1)..Len(orders') :
                orders'[k].status = "PREPARING"
          /\ \A id \in OrderIds : \A s \in OrderStatus :
                (OrderExists(id) /\ UpdateOrderStatus(id, s)) =>
                    orders'[OrderIndex(id)].status = s]_vars

\* one order is DELIVERED and one is CANCELLED
C12_Witness ==
    /\ \E k \in 1..Len(orders) : orders[k].status = "DELIVERED"
    /\ \E k \in 1..Len(orders) : orders[k].status = "CANCELLED"

\* ---- C15 ----

\* C15: updateOrderStatus(id, s) on an existing order changes the status of
\* that order only: the other orders' statuses, every order's id and line
\* items, the number of orders, the cart and the catalog are unchanged.
C15_UpdateTouchesOneStatus ==
    [][\A id \in OrderIds : \A s \in OrderStatus :
          (OrderExists(id) /\ UpdateOrderStatus(id, s)) =>
              /\ Len(orders') = Len(orders)
              /\ \A k \in 1..Len(orders) :
                    /\ orders'[k].id = orders[k].id
                    /\ OrderLines(k)' = OrderLines(k)
                    /\ k # OrderIndex(id) => orders'[k].status = orders[k].status
              /\ CartLines' = CartLines
              /\ products' = products]_vars

\* the first of two orders was given a status, the second kept its own
C15_Witness ==
    /\ Len(orders) = 2
    /\ orders[1].status = "CANCELLED"
    /\ orders[2].status = "PREPARING"

\* ---- C16 ----

C17_OrderIdsSequential ==
    /\ [](/\ \A k \in 1..Len(orders) : orders[k].id = k
          /\ \A id \in OrderIds :
                Cardinality({k \in 1..Len(orders) : orders[k].id = id}) <= 1)
    /\ [][Len(orders') >= Len(orders)]_vars

\* two orders
C17_Witness ==
    /\ Len(orders) = 2
    /\ orders[1].id # orders[2].id

\* ---- C18 ----

\* the cart holds a line item whose product the catalog does not have
StaleCart == \E id \in ProductIds : InCart(id) /\ ~InCatalog(id)

\* C18: removeProduct(id) changes the catalog only; addOrder on a cart that
\* holds a line item of a removed product makes the order, with that line.
C18_RemoveProductCatalogOnly ==
    /\ [](StaleCart => ENABLED (AddOrder /\ Len(orders') = Len(orders) + 1))
    /\ [][/\ \A id \in ProductIds :
                RemoveProduct(id) => UNCHANGED <<cells, items, orders>>
          /\ (StaleCart /\ AddOrder) =>
                /\ Len(orders') = Len(orders) + 1
                /\ LinesOf(cells', orders'[Len(orders')].items) = CartLines]_vars

\* an order and the cart each hold a line item of a product the catalog
\* does not have
C18_Witness ==
    /\ StaleCart
    /\ \E k \in 1..Len(orders) : \E i \in 1..Len(OrderLines(k)) :
          ~InCatalog(OrderLines(k)[i].product.id)

\* ---- C19 ----

\* the catalog has, for the id of a line of the cart, another product than
\* the line holds
Repriced(id) ==
    /\ InCart(id)
    /\ InCatalog(id)
    /\ findProduct(id) # CartLines[LineIndex(id)].product

\* C19: addItem(id, q), q > 0, on a line whose product the catalog has
\* replaced adds q to that line and leaves the line its old product and price.
C19_LineKeepsFirstProduct ==
    [][\A id \in ProductIds : \A q \in Quantities :
          (q > 0 /\ Repriced(id) /\ AddItem(id, q)) =>
              /\ Len(CartLines') = Len(CartLines)
              /\ CartLines'[LineIndex(id)].product = CartLines[LineIndex(id)].product
              /\ CartLines'[LineIndex(id)].quantity =
                    CartLines[LineIndex(id)].quantity + q]_vars

\* a line that was added to holds another price than the catalog has for
\* its product id
C19_Witness ==
    \E id \in ProductIds :
        /\ Repriced(id)
        /\ CartLines[LineIndex(id)].quantity = 3
        /\ CartLines[LineIndex(id)].product.price # findProduct(id).price

\* ---- C13 ----

\* C13: in the script, the four addItem calls on the catalog of the three
\* products leave the cart with the two lines (product 1, quantity 1) and
\* (product 2, quantity 2); addOrder then leaves one order, with id 1, status
\* PREPARING and total price 165000, and an empty cart.
C13_ScriptCartAndOrder ==
    /\ pc = 8 =>
          /\ [i \in 1..Len(products) |-> <<products[i].id, products[i].price>>]
                = <<<<1, 75000>>, <<2, 45000>>, <<3, 5000>>>>
          /\ Len(CartLines) = 2
          /\ {<<CartLines[i].product.id, CartLines[i].quantity>> : i \in 1..2}
                = {<<1, 1>>, <<2, 2>>}
    /\ pc = 9 =>
          /\ Len(orders) = 1
          /\ orders[1].id = 1
          /\ orders[1].status = "PREPARING"
          /\ totalPrice(orders[1]) = 165000
          /\ Len(OrderLines(1)) = 2
          /\ isEmpty(items)

\* the script has made its order
C13_Witness == pc = 9 /\ Len(orders) = 1 /\ Len(items) = 0

\* ---- C14 ----

\* C14: adding an entry to the array getItems returned, removing one from it
\* or reordering it leaves the cart's line items, their sequence and isEmpty
\* as they were.
C14_ReturnedArrayIsCopy ==
    [][(\/ \E product \in Product, q \in Quantities : ReturnedPush(product, q)
        \/ ReturnedPop
        \/ ReturnedReverse) =>
           /\ CartLines' = CartLines
           /\ isEmpty(items') = isEmpty(items)]_<<vars, caller>>

\* the caller holds the array of a cart of two lines, reversed
C14_Witness ==
    /\ Len(items) = 2
    /\ returned # << >>
    /\ returned[1].elems = <<items[2], items[1]>>

\* the cart is empty and the array the caller holds is not
C14_EmptyCartFullArray ==
    /\ Len(items) = 0
    /\ returned # << >>
    /\ Len(returned[1].elems) = 2

====
